---------------------------- MODULE Spec2Model ----------------------------
(***************************************************************************)
(* Replication groups of the distributed sparse x dense multiplication:   *)
(* the group assignment computed by DenseMatrixReplicationGroup::ofProcess *)
(* and SparseMatrixReplicationGroup::ofProcess (strategies ColumnA and     *)
(* InnerABC), the collective calls that build the channels (MPI_Comm_split *)
(* and MPI_Intercomm_create), and freeComms.                               *)
(*                                                                         *)
(* Spec     : all processes of one run execute one ofProcess variant       *)
(*            concurrently, then call freeComms.                           *)
(* SpecBuild: the same up to the return of ofProcess, for larger pools;    *)
(*            FairBuild adds that processes run and matched calls return.  *)
(* SpecPart : the group assignment alone (the integer part of ofProcess),  *)
(*            applied to processId = 0, 1, ... of larger configurations.   *)
(***************************************************************************)
EXTENDS Integers, Sequences, FiniteSets, TLC

VARIABLES
    cfg,        \* the run: [kind, algorithm, numReplicationGroups, replicationGroupSize]
    pc,         \* pc[p]: where process p is ("start", the call it is blocked in, "returned")
    rg,         \* rg[p]: the locals of p's ofProcess, which become the fields of the object
    comms,      \* the channels created so far: handle -> members in rank order
    calls,      \* calls[p]: the collective calls p has issued, in order
    freeCalls,  \* freeCalls[p]: how many times p has called freeComms
    released    \* released[p]: the handles p has passed to MPI_Comm_free, in order

vars == <<cfg, pc, rg, comms, calls, freeCalls, released>>

----------------------------------------------------------------------------
(* Bounds of the model. *)

\* Spec: largest process pool
MaxProcesses == 6
\* SpecBuild: largest process pool
BuildMaxProcesses == 10
\* Spec: how many times a process may call freeComms
MaxFreeCalls == 2
\* SpecPart: largest numReplicationGroups
PartMaxGroups == 6
\* SpecPart: largest replicationGroupSize
PartMaxGroupSize == 3

----------------------------------------------------------------------------
(* Names and handles. *)

Dense == "Dense"
Sparse == "Sparse"
ColumnA == "ColumnA"
InnerABC == "InnerABC"

\* A channel handle is a 4-tuple <<sort, a, b, c>>; the three below are MPI's.
MPI_COMM_NULL == <<"null", 0, 0, 0>>
MPI_COMM_WORLD == <<"world", 0, 0, 0>>
MPI_COMM_SELF == <<"self", 0, 0, 0>>

\* The colour that leaves a process out of every result of MPI_Comm_split.
MPI_UNDEFINED == -1

\* Rank of a group's leader inside its local channel (common.h).
INTERNAL_LEADER_ID == 0

\* C++ integer division and remainder: the quotient is truncated toward zero.
CDiv(a, b) == IF a >= 0 THEN a \div b ELSE -((-a) \div b)
CMod(a, b) == a - (b * CDiv(a, b))

\* ReplicationGroup::getGlobalId (replication_group.h): the group's tag.
getGlobalId(id, numReplicationGroups) == id

numProcessesOf(c) == c.numReplicationGroups * c.replicationGroupSize
numProcesses == numProcessesOf(cfg)
Procs == 0 .. (numProcesses - 1)

----------------------------------------------------------------------------
(* The group assignment: the integer locals of each ofProcess variant. *)

\* ---- DenseMatrixReplicationGroup::ofProcess<ColumnA>
DenseColumnA_locals(processId) ==
    [ localRgId     |-> processId,
      size          |-> 1,
      localLeaderId |-> processId,
      localComm     |-> MPI_COMM_SELF,
      leadersComm   |-> MPI_COMM_WORLD ]

\* ---- SparseMatrixReplicationGroup::ofProcess<ColumnA>
ColumnA_localRgId(processId, replicationGroupSize) ==
    CDiv(processId, replicationGroupSize)

ColumnA_localLeaderId(localRgId, replicationGroupSize) ==
    localRgId * replicationGroupSize

ColumnA_predRgId_NoWrap(localRgId, numReplicationGroups) ==
    CMod(localRgId - 1, numReplicationGroups)

ColumnA_predRgId(localRgId, numReplicationGroups) ==
    CMod(localRgId - 1 + numReplicationGroups, numReplicationGroups)

ColumnA_predRgLeaderId(predRgId, replicationGroupSize) ==
    predRgId * replicationGroupSize

ColumnA_succRgId(localRgId, numReplicationGroups) ==
    CMod(localRgId + 1, numReplicationGroups)

ColumnA_succRgLeaderId_Own(succRgId, replicationGroupSize) ==
    (succRgId * replicationGroupSize) + (replicationGroupSize - 1)

ColumnA_succRgLeaderId(succRgId, replicationGroupSize) ==
    succRgId * replicationGroupSize

SparseColumnA_locals(processId, numReplicationGroups, replicationGroupSize) ==
    LET localRgId == ColumnA_localRgId(processId, replicationGroupSize)
        predRgId  == ColumnA_predRgId(localRgId, numReplicationGroups)
        succRgId  == ColumnA_succRgId(localRgId, numReplicationGroups)
    IN  [ localRgId       |-> localRgId,
          size            |-> replicationGroupSize,
          localRgGlobalId |-> getGlobalId(localRgId, numReplicationGroups),
          localLeaderId   |-> ColumnA_localLeaderId(localRgId, replicationGroupSize),
          localComm       |-> MPI_COMM_NULL,
          predRgId        |-> predRgId,
          predRgGlobalId  |-> getGlobalId(predRgId, numReplicationGroups),
          predRgLeaderId  |-> ColumnA_predRgLeaderId(predRgId, replicationGroupSize),
          predInterComm   |-> MPI_COMM_NULL,
          succRgId        |-> succRgId,
          succRgLeaderId  |-> ColumnA_succRgLeaderId(succRgId, replicationGroupSize),
          succInterComm   |-> MPI_COMM_NULL ]

\* ---- DenseMatrixReplicationGroup::ofProcess<InnerABC>
DenseInnerABC_localRgId(processId, replicationGroupSize) ==
    CDiv(processId, replicationGroupSize)

DenseInnerABC_localLeaderId(localRgId, replicationGroupSize) ==
    localRgId * replicationGroupSize

DenseInnerABC_locals(processId, numReplicationGroups, replicationGroupSize) ==
    LET localRgId == DenseInnerABC_localRgId(processId, replicationGroupSize)
    IN  [ localRgId       |-> localRgId,
          size            |-> replicationGroupSize,
          localRgGlobalId |-> getGlobalId(localRgId, numReplicationGroups),
          localLeaderId   |-> DenseInnerABC_localLeaderId(localRgId, replicationGroupSize),
          localComm       |-> MPI_COMM_NULL,
          leadersComm     |-> MPI_COMM_NULL ]

\* ---- SparseMatrixReplicationGroup::ofProcess<InnerABC>
InnerABC_numShifts_Size(numReplicationGroups, replicationGroupSize) ==
    replicationGroupSize

InnerABC_numShifts(numReplicationGroups, replicationGroupSize) ==
    CDiv(numReplicationGroups, replicationGroupSize)

InnerABC_denseLayerId_Div(processId, numReplicationLayers) ==
    CDiv(processId, numReplicationLayers)

InnerABC_denseLayerId(processId, numReplicationLayers) ==
    CMod(processId, numReplicationLayers)

InnerABC_denseGroupId(processId, replicationGroupSize) ==
    CDiv(processId, replicationGroupSize)

InnerABC_localRgId_NoMod(denseLayerId, denseGroupId, numShifts) ==
    (denseLayerId * numShifts) + denseGroupId

InnerABC_localRgId_Div(denseLayerId, denseGroupId, numShifts) ==
    (denseLayerId * numShifts) + CDiv(denseGroupId, numShifts)

InnerABC_localRgId(denseLayerId, denseGroupId, numShifts) ==
    (denseLayerId * numShifts) + CMod(denseGroupId, numShifts)

InnerABC_localLeaderId_Layer(processId, numReplicationGroups) ==
    CDiv(processId, numReplicationGroups)

InnerABC_localLeaderId(processId, numReplicationGroups) ==
    CMod(processId, numReplicationGroups)

InnerABC_predRgId(localRgId, numReplicationGroups) ==
    CMod(localRgId - 1 + numReplicationGroups, numReplicationGroups)

InnerABC_predRgLeaderId(predRgId, numShifts, replicationGroupSize) ==
    CDiv(predRgId, numShifts) + (CMod(predRgId, numShifts) * replicationGroupSize)

InnerABC_succRgId(localRgId, numReplicationGroups) ==
    CMod(localRgId + 1, numReplicationGroups)

InnerABC_succRgLeaderId_Block(succRgId, numShifts, replicationGroupSize) ==
    succRgId * replicationGroupSize

InnerABC_succRgLeaderId(succRgId, numShifts, replicationGroupSize) ==
    CDiv(succRgId, numShifts) + (CMod(succRgId, numShifts) * replicationGroupSize)

SparseInnerABC_locals(processId, numReplicationGroups, replicationGroupSize) ==
    LET numReplicationLayers == replicationGroupSize
        numShifts    == InnerABC_numShifts(numReplicationGroups, replicationGroupSize)
        denseLayerId == InnerABC_denseLayerId(processId, numReplicationLayers)
        denseGroupId == InnerABC_denseGroupId(processId, replicationGroupSize)
        localRgId    == InnerABC_localRgId(denseLayerId, denseGroupId, numShifts)
        predRgId     == InnerABC_predRgId(localRgId, numReplicationGroups)
        succRgId     == InnerABC_succRgId(localRgId, numReplicationGroups)
    IN  [ localRgId       |-> localRgId,
          size            |-> replicationGroupSize,
          localRgGlobalId |-> getGlobalId(localRgId, numReplicationGroups),
          localLeaderId   |-> InnerABC_localLeaderId(processId, numReplicationGroups),
          localComm       |-> MPI_COMM_NULL,
          predRgId        |-> predRgId,
          predRgGlobalId  |-> getGlobalId(predRgId, numReplicationGroups),
          predRgLeaderId  |-> InnerABC_predRgLeaderId(predRgId, numShifts, replicationGroupSize),
          predInterComm   |-> MPI_COMM_NULL,
          succRgId        |-> succRgId,
          succRgLeaderId  |-> InnerABC_succRgLeaderId(succRgId, numShifts, replicationGroupSize),
          succInterComm   |-> MPI_COMM_NULL ]

\* ---- The dispatching ofProcess of either class: anything but ColumnA is InnerABC.
DenseOfProcess_locals(processId, numReplicationGroups, replicationGroupSize, algorithm) ==
    IF algorithm = ColumnA
    THEN DenseColumnA_locals(processId)
    ELSE DenseInnerABC_locals(processId, numReplicationGroups, replicationGroupSize)

SparseOfProcess_locals(processId, numReplicationGroups, replicationGroupSize, algorithm) ==
    IF algorithm = ColumnA
    THEN SparseColumnA_locals(processId, numReplicationGroups, replicationGroupSize)
    ELSE SparseInnerABC_locals(processId, numReplicationGroups, replicationGroupSize)

Locals(p) ==
    IF cfg.kind = Dense
    THEN DenseOfProcess_locals(p, cfg.numReplicationGroups, cfg.replicationGroupSize, cfg.algorithm)
    ELSE SparseOfProcess_locals(p, cfg.numReplicationGroups, cfg.replicationGroupSize, cfg.algorithm)

----------------------------------------------------------------------------
(* Configurations. *)

Kinds == {Dense, Sparse}
Algorithms == {ColumnA, InnerABC}

\* numProcesses = numReplicationGroups * replicationGroupSize always; InnerABC
\* also needs replicationGroupSize to divide numReplicationGroups.
ValidConfig(c) ==
    (c.algorithm = InnerABC) =>
        (CMod(c.numReplicationGroups, c.replicationGroupSize) = 0)

Configs(maxGroups, maxGroupSize, maxProcesses) ==
    { c \in [ kind : Kinds, algorithm : Algorithms,
              numReplicationGroups : 1 .. maxGroups,
              replicationGroupSize : 1 .. maxGroupSize ] :
        ValidConfig(c) /\ (numProcessesOf(c) <= maxProcesses) }

EmptyMap == [x \in {} |-> x]

InitOf(configs) ==
    /\ cfg \in configs
    /\ pc = [p \in Procs |-> "start"]
    /\ rg = EmptyMap
    /\ comms = EmptyMap
    /\ calls = [p \in Procs |-> <<>>]
    /\ freeCalls = [p \in Procs |-> 0]
    /\ released = [p \in Procs |-> <<>>]

Init == InitOf(Configs(MaxProcesses, MaxProcesses, MaxProcesses))

----------------------------------------------------------------------------
(* Channels. *)

Range(s) == { s[i] : i \in DOMAIN s }

\* The members S of a new channel in rank order: by key, ties by rank in the parent.
RECURSIVE RankOrder(_, _)
RankOrder(S, key) ==
    IF S = {} THEN <<>>
    ELSE LET m == CHOOSE x \in S :
                    \A y \in S : (key[x] < key[y]) \/ ((key[x] = key[y]) /\ (x <= y))
         IN  <<m>> \o RankOrder(S \ {m}, key)

\* The members of the channel behind handle h as process p holds it.
CommMembers(h, p) == IF h = MPI_COMM_SELF THEN <<p>> ELSE comms[h]

----------------------------------------------------------------------------
(* ofProcess up to its first collective call. *)

\* DenseMatrixReplicationGroup::ofProcess<ColumnA>: no collective call at all.
DenseColumnA_ofProcess(p) ==
    /\ cfg.kind = Dense /\ cfg.algorithm = ColumnA
    /\ pc[p] = "start"
    /\ rg' = (p :> Locals(p)) @@ rg
    /\ pc' = [pc EXCEPT ![p] = "returned"]
    /\ UNCHANGED <<cfg, comms, calls, freeCalls, released>>

\* Every other variant computes its ids and calls MPI_Comm_split for the local channel.
ofProcess_localSplit(p) ==
    /\ ~(cfg.kind = Dense /\ cfg.algorithm = ColumnA)
    /\ pc[p] = "start"
    /\ rg' = (p :> Locals(p)) @@ rg
    /\ pc' = [pc EXCEPT ![p] = "split1"]
    /\ calls' = [calls EXCEPT ![p] = Append(@, "split")]
    /\ UNCHANGED <<cfg, comms, freeCalls, released>>

----------------------------------------------------------------------------
(* MPI_Comm_split over the whole pool returns once every process has called it. *)

DenseInnerABC_color_All(processId, localLeaderId) == 0

DenseInnerABC_color(processId, localLeaderId) ==
    IF processId = localLeaderId THEN 0 ELSE MPI_UNDEFINED

SplitColor(p) ==
    IF pc[p] = "split1" THEN rg[p].localRgGlobalId
    ELSE DenseInnerABC_color(p, rg[p].localLeaderId)

SplitKey_Descending(p) ==
    IF pc[p] = "split1" THEN numProcesses - p ELSE rg[p].localRgId

SplitKey(p) == IF pc[p] = "split1" THEN p ELSE rg[p].localRgId

SplitHandle(n, color) ==
    IF color = MPI_UNDEFINED THEN MPI_COMM_NULL ELSE <<"split", n, color, 0>>

\* The order of the two bridge calls (the parity rule).
ColumnA_succFirst_Always(localRgId) == TRUE

ColumnA_succFirst(localRgId) == CMod(localRgId, 2) = 0

InnerABC_succFirst_Always(localRgId) == TRUE

InnerABC_succFirst(localRgId) == CMod(localRgId, 2) = 0

succFirst(p) ==
    IF cfg.algorithm = ColumnA
    THEN ColumnA_succFirst(rg[p].localRgId)
    ELSE InnerABC_succFirst(rg[p].localRgId)

ColumnA_buildsRing_Three(numReplicationGroups) == numReplicationGroups > 2

\* The ring is built unless ColumnA finds a single group.
ColumnA_buildsRing(numReplicationGroups) == numReplicationGroups > 1

InnerABC_buildsRing(numReplicationGroups) == TRUE

buildsRing ==
    IF cfg.algorithm = ColumnA
    THEN ColumnA_buildsRing(cfg.numReplicationGroups)
    ELSE InnerABC_buildsRing(cfg.numReplicationGroups)

\* The first bridge call of a process.
FirstBridge(p) ==
    IF succFirst(p) THEN "succ"
    ELSE IF p = rg[p].localLeaderId THEN "pred" ELSE "succ"

\* Where p goes when its MPI_Comm_split returns.
AfterSplit(p) ==
    IF pc[p] = "split2" THEN "returned"
    ELSE IF cfg.kind = Dense THEN "split2"
    ELSE IF buildsRing THEN FirstBridge(p)
    ELSE "returned"

CallName(where) == IF where = "split2" THEN "split" ELSE where

Comm_split_return ==
    /\ \E n \in {1, 2} :
         /\ \A p \in Procs : pc[p] = (IF n = 1 THEN "split1" ELSE "split2")
         /\ LET color   == [p \in Procs |-> SplitColor(p)]
                key     == [p \in Procs |-> SplitKey(p)]
                colors  == { color[p] : p \in Procs } \ {MPI_UNDEFINED}
                made    == [h \in { SplitHandle(n, c) : c \in colors } |->
                               RankOrder({ p \in Procs : color[p] = h[3] }, key)]
                got(p)  == SplitHandle(n, color[p])
                next(p) == AfterSplit(p)
            IN  /\ comms' = made @@ comms
                /\ rg' = [p \in Procs |->
                            IF n = 2 THEN [rg[p] EXCEPT !.leadersComm = got(p)]
                            ELSE IF cfg.kind = Sparse /\ ~buildsRing
                            THEN [rg[p] EXCEPT !.localComm = got(p),
                                               !.predInterComm = MPI_COMM_SELF,
                                               !.succInterComm = MPI_COMM_SELF]
                            ELSE [rg[p] EXCEPT !.localComm = got(p)]]
                /\ pc' = [p \in Procs |-> next(p)]
                /\ calls' = [p \in Procs |->
                               IF next(p) = "returned" THEN calls[p]
                               ELSE Append(calls[p], CallName(next(p)))]
    /\ UNCHANGED <<cfg, freeCalls, released>>

----------------------------------------------------------------------------
(* MPI_Intercomm_create over the whole pool as peer channel.              *)
(* A call returns once every member of both local channels is in it and   *)
(* the two leaders name each other with the same tag.                      *)

InBridgeCall(q) == pc[q] \in {"succ", "pred"}

CallComm(q) == IF pc[q] = "succ" THEN rg[q].localComm ELSE MPI_COMM_SELF

CallRemoteLeader(q) ==
    IF pc[q] = "succ" THEN rg[q].succRgLeaderId ELSE rg[q].predRgLeaderId

CallTag_Own(q) == rg[q].localRgGlobalId

CallTag(q) ==
    IF pc[q] = "succ" THEN rg[q].localRgGlobalId ELSE rg[q].predRgGlobalId

CallGroup(q) == Range(CommMembers(CallComm(q), q))

CallLeader(q) == CommMembers(CallComm(q), q)[INTERNAL_LEADER_ID + 1]

GroupReady(q) ==
    \A m \in CallGroup(q) : InBridgeCall(m) /\ (CallComm(m) = CallComm(q))

\* Where q goes when its bridge call returns.
AfterBridge(q) ==
    IF pc[q] = "succ"
    THEN IF succFirst(q) /\ (q = rg[q].localLeaderId) THEN "pred" ELSE "returned"
    ELSE IF succFirst(q) THEN "returned" ELSE "succ"

BridgeReturn_Swapped(group, h) ==
    /\ rg' = [q \in DOMAIN rg |->
                IF q \notin group THEN rg[q]
                ELSE IF pc[q] = "succ" THEN [rg[q] EXCEPT !.predInterComm = h]
                ELSE [rg[q] EXCEPT !.succInterComm = h]]
    /\ pc' = [q \in Procs |-> IF q \in group THEN AfterBridge(q) ELSE pc[q]]
    /\ calls' = [q \in Procs |->
                   IF (q \in group) /\ (AfterBridge(q) # "returned")
                   THEN Append(calls[q], AfterBridge(q)) ELSE calls[q]]
    /\ UNCHANGED <<cfg, freeCalls, released>>

BridgeReturn(group, h) ==
    /\ rg' = [q \in DOMAIN rg |->
                IF q \notin group THEN rg[q]
                ELSE IF pc[q] = "succ" THEN [rg[q] EXCEPT !.succInterComm = h]
                ELSE [rg[q] EXCEPT !.predInterComm = h]]
    /\ pc' = [q \in Procs |-> IF q \in group THEN AfterBridge(q) ELSE pc[q]]
    /\ calls' = [q \in Procs |->
                   IF (q \in group) /\ (AfterBridge(q) # "returned")
                   THEN Append(calls[q], AfterBridge(q)) ELSE calls[q]]
    /\ UNCHANGED <<cfg, freeCalls, released>>

Intercomm_create_return(a, b) ==
    /\ a < b
    /\ InBridgeCall(a) /\ InBridgeCall(b)
    /\ CallLeader(a) = a /\ CallLeader(b) = b
    /\ CallRemoteLeader(a) = b /\ CallRemoteLeader(b) = a
    /\ CallTag(a) = CallTag(b)
    /\ GroupReady(a) /\ GroupReady(b)
    /\ CallGroup(a) \cap CallGroup(b) = {}
    /\ LET h == IF pc[a] = "succ" THEN <<"inter", a, b, CallTag(a)>>
                ELSE <<"inter", b, a, CallTag(a)>>
       IN  /\ comms' = (h :> (CommMembers(CallComm(a), a) \o CommMembers(CallComm(b), b)))
                         @@ comms
           /\ BridgeReturn(CallGroup(a) \cup CallGroup(b), h)

\* A leader that names a member of its own local channel as remote leader: MPI
\* leaves the call undefined. It may never return (no step), return an error
\* and leave the handle null, or hand back a channel over the local group.
Intercomm_create_self(a) ==
    /\ InBridgeCall(a)
    /\ CallLeader(a) = a
    /\ CallRemoteLeader(a) \in CallGroup(a)
    /\ GroupReady(a)
    /\ \E h \in {MPI_COMM_NULL, <<pc[a], a, a, CallTag(a)>>} :
         /\ comms' = IF h = MPI_COMM_NULL THEN comms
                     ELSE (h :> CommMembers(CallComm(a), a)) @@ comms
         /\ BridgeReturn(CallGroup(a), h)

----------------------------------------------------------------------------
(* freeComms. *)

safeMPI_Comm_free_NoSelfTest(comm) ==
    (comm # MPI_COMM_NULL) /\ (comm # MPI_COMM_WORLD)

\* Whether safeMPI_Comm_free passes the handle to MPI_Comm_free.
safeMPI_Comm_free(comm) ==
    (comm # MPI_COMM_NULL) /\ (comm # MPI_COMM_WORLD) /\ (comm # MPI_COMM_SELF)

AfterFree_Keep(comm) == comm

\* MPI_Comm_free leaves the null handle in the variable it was given.
AfterFree(comm) == IF safeMPI_Comm_free(comm) THEN MPI_COMM_NULL ELSE comm

Released(handles) == SelectSeq(handles, safeMPI_Comm_free)

Dense_freeComms(p) ==
    /\ cfg.kind = Dense
    /\ pc[p] = "returned" /\ freeCalls[p] < MaxFreeCalls
    /\ released' = [released EXCEPT ![p] =
                      @ \o Released(<<rg[p].localComm, rg[p].leadersComm>>)]
    /\ rg' = [rg EXCEPT ![p].localComm = AfterFree(@),
                        ![p].leadersComm = AfterFree(@)]
    /\ freeCalls' = [freeCalls EXCEPT ![p] = @ + 1]
    /\ UNCHANGED <<cfg, pc, comms, calls>>

Sparse_freeComms(p) ==
    /\ cfg.kind = Sparse
    /\ pc[p] = "returned" /\ freeCalls[p] < MaxFreeCalls
    /\ released' = [released EXCEPT ![p] =
                      @ \o Released(<<rg[p].localComm, rg[p].predInterComm,
                                      rg[p].succInterComm>>)]
    /\ rg' = [rg EXCEPT ![p].localComm = AfterFree(@),
                        ![p].predInterComm = AfterFree(@),
                        ![p].succInterComm = AfterFree(@)]
    /\ freeCalls' = [freeCalls EXCEPT ![p] = @ + 1]
    /\ UNCHANGED <<cfg, pc, comms, calls>>

----------------------------------------------------------------------------
(* The specifications. *)

\* The steps of ofProcess whose return MPI guarantees.
ofProcessStep ==
    \/ \E p \in Procs : DenseColumnA_ofProcess(p)
    \/ \E p \in Procs : ofProcess_localSplit(p)
    \/ Comm_split_return
    \/ \E a, b \in Procs : Intercomm_create_return(a, b)

Next ==
    \/ \E p \in Procs : DenseColumnA_ofProcess(p)
    \/ \E p \in Procs : ofProcess_localSplit(p)
    \/ Comm_split_return
    \/ \E a, b \in Procs : Intercomm_create_return(a, b)
    \/ \E a \in Procs : Intercomm_create_self(a)
    \/ \E p \in Procs : Dense_freeComms(p)
    \/ \E p \in Procs : Sparse_freeComms(p)

Spec == Init /\ [][Next]_vars

\* ofProcess alone, every process of the pool running it.
InitBuild == InitOf(Configs(BuildMaxProcesses, BuildMaxProcesses, BuildMaxProcesses))

NextBuild ==
    \/ \E p \in Procs : DenseColumnA_ofProcess(p)
    \/ \E p \in Procs : ofProcess_localSplit(p)
    \/ Comm_split_return
    \/ \E a, b \in Procs : Intercomm_create_return(a, b)
    \/ \E a \in Procs : Intercomm_create_self(a)

SpecBuild == InitBuild /\ [][NextBuild]_vars

\* Every process runs, and MPI completes a matched collective call.
FairBuild == SpecBuild /\ WF_vars(ofProcessStep)

\* The group assignment alone, for processId = 0, 1, 2, ... in turn.
Partition(p) ==
    /\ p \notin DOMAIN rg
    /\ \A q \in Procs : (q < p) => (q \in DOMAIN rg)
    /\ rg' = (p :> Locals(p)) @@ rg
    /\ UNCHANGED <<cfg, pc, comms, calls, freeCalls, released>>

InitPart == InitOf(Configs(PartMaxGroups, PartMaxGroupSize, PartMaxGroups * PartMaxGroupSize))

NextPart == \E p \in Procs : Partition(p)

SpecPart == InitPart /\ [][NextPart]_vars

----------------------------------------------------------------------------
(* Vocabulary of the properties. *)

AllAssigned == DOMAIN rg = Procs

AllReturned == \A p \in Procs : pc[p] = "returned"

IsSparse == cfg.kind = Sparse

IsDense == cfg.kind = Dense

\* The processes that computed local group id g.
GroupOf(g) == { p \in DOMAIN rg : rg[p].localRgId = g }

GroupIds == { rg[p].localRgId : p \in DOMAIN rg }

\* The size a group's members report for it.
ReportedSize(g) == rg[CHOOSE p \in GroupOf(g) : TRUE].size

RECURSIVE SumReportedSizes(_)
SumReportedSizes(G) ==
    IF G = {} THEN 0
    ELSE LET g == CHOOSE x \in G : TRUE
         IN  ReportedSize(g) + SumReportedSizes(G \ {g})

\* Position of p among the members of its group ordered by process id.
RankInGroup(p) == Cardinality({ q \in GroupOf(rg[p].localRgId) : q < p })

\* The successor and predecessor group ids the members of group g compute.
SuccOf(g) == rg[CHOOSE p \in GroupOf(g) : TRUE].succRgId

PredOf(g) == rg[CHOOSE p \in GroupOf(g) : TRUE].predRgId

RECURSIVE Walk(_, _)
Walk(g, k) == IF k = 0 THEN g ELSE SuccOf(Walk(g, k - 1))

BridgeCalls(p) == SelectSeq(calls[p], LAMBDA c : c \in {"succ", "pred"})

SplitCalls(p) == SelectSeq(calls[p], LAMBDA c : c = "split")

Sentinels == {MPI_COMM_WORLD, MPI_COMM_SELF}

\* The channel handles held in the object r.
Handles(r) ==
    IF IsDense THEN {r.localComm, r.leadersComm}
    ELSE {r.localComm, r.predInterComm, r.succInterComm}

Owned(r) == Handles(r) \ (Sentinels \cup {MPI_COMM_NULL})

Occurrences(s, x) == Cardinality({ i \in DOMAIN s : s[i] = x })

----------------------------------------------------------------------------
(* C1. Deadlock freedom of the ring: in a sparse run with at least two     *)
(* groups (ColumnA or InnerABC, odd or even ring), with every process      *)
(* running and every matched collective call returning, every process      *)
(* eventually returns from ofProcess; no state leaves the unfinished       *)
(* processes blocked for ever.                                             *)
C1_EveryProcessReturns ==
    (IsSparse /\ (cfg.numReplicationGroups >= 2)) => <>AllReturned

\* An odd InnerABC ring of groups of three has been built.
C1_Witness ==
    /\ IsSparse /\ cfg.algorithm = InnerABC
    /\ cfg.numReplicationGroups = 3 /\ cfg.replicationGroupSize = 3
    /\ AllReturned
    /\ \A p \in Procs : Len(BridgeCalls(p)) = (IF p = rg[p].localLeaderId THEN 2 ELSE 1)

(* C2. Partition property: once every process has its local group id, each *)
(* process is in exactly one group, groups are pairwise disjoint, every    *)
(* group has exactly the size its members report (1 for ColumnA dense,     *)
(* replicationGroupSize otherwise), the reported sizes sum to numProcesses *)
(* and a sparse run has exactly numReplicationGroups non-empty groups.     *)
C2_Partition ==
    AllAssigned =>
        /\ \A p \in Procs : Cardinality({ g \in GroupIds : p \in GroupOf(g) }) = 1
        /\ \A g, h \in GroupIds : (g # h) => (GroupOf(g) \cap GroupOf(h) = {})
        /\ \A p \in Procs :
             rg[p].size = (IF IsDense /\ cfg.algorithm = ColumnA
                           THEN 1 ELSE cfg.replicationGroupSize)
        /\ \A p \in Procs : Cardinality(GroupOf(rg[p].localRgId)) = rg[p].size
        /\ SumReportedSizes(GroupIds) = numProcesses
        /\ IsSparse => (Cardinality(GroupIds) = cfg.numReplicationGroups)

\* A sparse InnerABC run with several shifts and layers is fully assigned.
C2_Witness ==
    /\ IsSparse /\ cfg.algorithm = InnerABC
    /\ cfg.numReplicationGroups = 4 /\ cfg.replicationGroupSize = 2
    /\ AllAssigned

(* C4. Bijection (InnerABC sparse): processId -> (localGroupId, rank in    *)
(* group) is one-to-one from [0, numProcesses) onto                        *)
(* [0, numReplicationGroups) x [0, replicationGroupSize).                  *)
C4_Bijection ==
    (IsSparse /\ cfg.algorithm = InnerABC /\ AllAssigned) =>
        LET pair(p) == <<rg[p].localRgId, RankInGroup(p)>>
        IN  /\ \A p, q \in Procs : (p # q) => (pair(p) # pair(q))
            /\ { pair(p) : p \in Procs } =
                 (0 .. (cfg.numReplicationGroups - 1)) \X
                 (0 .. (cfg.replicationGroupSize - 1))

\* A fully assigned InnerABC sparse run in which some process is not rank 0.
C4_Witness ==
    /\ IsSparse /\ cfg.algorithm = InnerABC /\ AllAssigned
    /\ cfg.numReplicationGroups = 6 /\ cfg.replicationGroupSize = 2
    /\ \E p \in Procs : RankInGroup(p) = 1

(* C5. Leader membership: the leader id computed by a process is a process *)
(* of the pool whose own local group id is the same, and all members of a  *)
(* group compute the same leader id.                                       *)
C5_LeaderMembership ==
    AllAssigned =>
        \A p \in Procs :
            /\ rg[p].localLeaderId \in Procs
            /\ rg[rg[p].localLeaderId].localRgId = rg[p].localRgId
            /\ \A q \in GroupOf(rg[p].localRgId) :
                 rg[q].localLeaderId = rg[p].localLeaderId

\* A fully assigned run with a process that is not its group's leader.
C5_Witness ==
    /\ AllAssigned
    /\ cfg.algorithm = InnerABC /\ cfg.replicationGroupSize = 3
    /\ \E p \in Procs : rg[p].localLeaderId # p

(* C6. Ring closure: the successor and predecessor ids lie in              *)
(* [0, numReplicationGroups); successor(predecessor(g)) = g and            *)
(* predecessor(successor(g)) = g; following successors from any group      *)
(* visits every group once and comes back; a single group is its own       *)
(* successor and predecessor.                                              *)
C6_RingClosure ==
    IsSparse =>
        /\ \A p \in DOMAIN rg :
             /\ rg[p].succRgId \in 0 .. (cfg.numReplicationGroups - 1)
             /\ rg[p].predRgId \in 0 .. (cfg.numReplicationGroups - 1)
             /\ (cfg.numReplicationGroups = 1) =>
                  (rg[p].succRgId = 0 /\ rg[p].predRgId = 0)
        /\ AllAssigned =>
             \A g \in 0 .. (cfg.numReplicationGroups - 1) :
                /\ \A p \in GroupOf(g) :
                     rg[p].succRgId = SuccOf(g) /\ rg[p].predRgId = PredOf(g)
                /\ SuccOf(PredOf(g)) = g
                /\ PredOf(SuccOf(g)) = g
                /\ { Walk(g, k) : k \in 0 .. (cfg.numReplicationGroups - 1) } =
                     0 .. (cfg.numReplicationGroups - 1)
                /\ Walk(g, cfg.numReplicationGroups) = g

\* A fully assigned sparse ring of five groups.
C6_Witness ==
    /\ IsSparse /\ AllAssigned
    /\ cfg.numReplicationGroups = 5 /\ cfg.replicationGroupSize = 2
    /\ PredOf(0) = 4 /\ SuccOf(4) = 0

(* C7. InnerABC golden case: 18 processes in groups of 3 give the sparse   *)
(* groups 0..5 the members {0,6,12}, {3,9,15}, {1,7,13}, {4,10,16},        *)
(* {2,8,14}, {5,11,17}.                                                    *)
C7_GoldenInnerABC ==
    ( /\ IsSparse /\ cfg.algorithm = InnerABC /\ AllAssigned
      /\ cfg.numReplicationGroups = 6 /\ cfg.replicationGroupSize = 3 ) =>
        /\ GroupOf(0) = {0, 6, 12}
        /\ GroupOf(1) = {3, 9, 15}
        /\ GroupOf(2) = {1, 7, 13}
        /\ GroupOf(3) = {4, 10, 16}
        /\ GroupOf(4) = {2, 8, 14}
        /\ GroupOf(5) = {5, 11, 17}

\* The 18-process InnerABC sparse run is fully assigned.
C7_Witness ==
    /\ IsSparse /\ cfg.algorithm = InnerABC
    /\ numProcesses = 18 /\ cfg.replicationGroupSize = 3
    /\ DOMAIN rg = 0 .. 17

(* C8. ColumnA golden case: 9 processes in groups of 3 give the sparse     *)
(* groups {0,1,2} led by 0, {3,4,5} led by 3, {6,7,8} led by 6, and every  *)
(* member of group 0 computes successor leader 3 and predecessor leader 6. *)
C8_GoldenColumnA ==
    ( /\ IsSparse /\ cfg.algorithm = ColumnA /\ AllAssigned
      /\ cfg.numReplicationGroups = 3 /\ cfg.replicationGroupSize = 3 ) =>
        /\ GroupOf(0) = {0, 1, 2} /\ \A p \in {0, 1, 2} : rg[p].localLeaderId = 0
        /\ GroupOf(1) = {3, 4, 5} /\ \A p \in {3, 4, 5} : rg[p].localLeaderId = 3
        /\ GroupOf(2) = {6, 7, 8} /\ \A p \in {6, 7, 8} : rg[p].localLeaderId = 6
        /\ \A p \in GroupOf(0) :
             rg[p].succRgLeaderId = 3 /\ rg[p].predRgLeaderId = 6

\* The 9-process ColumnA sparse run is fully assigned.
C8_Witness ==
    /\ IsSparse /\ cfg.algorithm = ColumnA
    /\ numProcesses = 9 /\ cfg.replicationGroupSize = 3
    /\ DOMAIN rg = 0 .. 8

----------------------------------------------------------------------------
(* C3. Degenerate ring: with a single sparse group, under either strategy, *)
(* ofProcess issues no bridge-creation call and returns with both bridge   *)
(* channels equal to the self channel.                                     *)
C3_DegenerateRing ==
    (IsSparse /\ cfg.numReplicationGroups = 1) =>
        \A p \in Procs :
            /\ BridgeCalls(p) = <<>>
            /\ (pc[p] = "returned") =>
                 /\ rg[p].predInterComm = MPI_COMM_SELF
                 /\ rg[p].succInterComm = MPI_COMM_SELF

(* C9. Dense leaders channel (InnerABC): once every process has returned,  *)
(* the leaders channel holds exactly the leader of each dense group        *)
(* (numReplicationGroups members), every other process holds the null      *)
(* handle, and each process issued exactly two partition calls and no      *)
(* bridge-creation call.                                                   *)
C9_DenseLeadersChannel ==
    (IsDense /\ cfg.algorithm = InnerABC /\ AllReturned) =>
        LET leaders == { p \in Procs : rg[p].leadersComm # MPI_COMM_NULL }
        IN  /\ \A p, q \in leaders : rg[p].leadersComm = rg[q].leadersComm
            /\ \A p \in leaders : Range(comms[rg[p].leadersComm]) = leaders
            /\ Cardinality(leaders) = cfg.numReplicationGroups
            /\ \A g \in GroupIds :
                 /\ Cardinality(GroupOf(g) \cap leaders) = 1
                 /\ \A p \in GroupOf(g) : (p \in leaders) <=> (p = rg[p].localLeaderId)
            /\ \A p \in Procs :
                 /\ Len(SplitCalls(p)) = 2
                 /\ BridgeCalls(p) = <<>>

\* A dense InnerABC run with leaders and non-leaders has returned everywhere.
C9_Witness ==
    /\ IsDense /\ cfg.algorithm = InnerABC /\ AllReturned
    /\ cfg.numReplicationGroups = 4 /\ cfg.replicationGroupSize = 2
    /\ rg[1].leadersComm = MPI_COMM_NULL /\ rg[2].leadersComm # MPI_COMM_NULL

(* C10. Lifecycle safety: the first freeComms of an object passes neither  *)
(* the whole-pool nor the self handle to MPI_Comm_free, passes every       *)
(* handle the object owns (neither sentinel nor null) exactly once and     *)
(* nothing else, and leaves no owned handle in the object.                 *)
C10_FreeCommsSafety ==
    [][ \A p \in Procs :
          (freeCalls[p] = 0 /\ freeCalls'[p] = 1) =>
              /\ Range(released'[p]) \cap Sentinels = {}
              /\ Range(released'[p]) = Owned(rg[p])
              /\ \A h \in Owned(rg[p]) : Occurrences(released'[p], h) = 1
              /\ Owned(rg'[p]) = {} ]_vars

\* A ColumnA sparse object of a single-group run (bridges are the self
\* channel) has been released once: its local channel went, nothing else.
C10_Witness ==
    /\ IsSparse /\ cfg.algorithm = ColumnA /\ cfg.numReplicationGroups = 1
    /\ \E p \in Procs :
         /\ freeCalls[p] = 1
         /\ Len(released[p]) = 1
         /\ rg[p].predInterComm = MPI_COMM_SELF
         /\ rg[p].succInterComm = MPI_COMM_SELF

(* C11. Double release is guarded: a freeComms call on an object that was  *)
(* already released once (dense or sparse) passes no handle at all to      *)
(* MPI_Comm_free, the released handles having been reset to null; and the  *)
(* null handle, whether left by a release or null from construction (the   *)
(* leaders channel or predecessor bridge of a non-leader), is never        *)
(* passed to MPI_Comm_free.                                                *)
C11_SecondFreeCommsReleasesNothing ==
    [][ \A p \in Procs :
          /\ (freeCalls[p] >= 1 /\ freeCalls'[p] = freeCalls[p] + 1) =>
                 /\ released'[p] = released[p]
                 /\ rg'[p] = rg[p]
          /\ MPI_COMM_NULL \notin Range(released'[p]) ]_vars

\* A non-leader of a sparse ring, whose predecessor bridge was null from
\* construction, has called freeComms twice; a dense InnerABC non-leader is
\* covered by the same formula.
C11_Witness ==
    /\ IsSparse /\ cfg.numReplicationGroups >= 2
    /\ \E p \in Procs :
         /\ freeCalls[p] = 2
         /\ p # rg[p].localLeaderId
         /\ Len(released[p]) = 2
         /\ Handles(rg[p]) = {MPI_COMM_NULL}

\* The bridge calls a process issues, in order, as the parity rule has it.
ExpectedBridgeCalls(p) ==
    IF p # rg[p].localLeaderId THEN <<"succ">>
    ELSE IF rg[p].localRgId % 2 = 0 THEN <<"succ", "pred">>
    ELSE <<"pred", "succ">>

\* The bridge a call of the given name fills in.
BridgeField(p, name) ==
    IF name = "succ" THEN rg[p].succInterComm ELSE rg[p].predInterComm

(* C12. Parity ordering: in a sparse run with at least two groups (both    *)
(* strategies) the leader of an even group has its successor bridge        *)
(* before it starts the predecessor call, the leader of an odd group has   *)
(* its predecessor bridge before it starts the successor call; a           *)
(* non-leader issues exactly one bridge call (successor) and a leader      *)
(* exactly two.                                                            *)
C12_ParityOrdering ==
    (IsSparse /\ cfg.numReplicationGroups >= 2) =>
        \A p \in DOMAIN rg :
            LET issued   == BridgeCalls(p)
                expected == ExpectedBridgeCalls(p)
            IN  /\ Len(issued) <= Len(expected)
                /\ \A i \in DOMAIN issued : issued[i] = expected[i]
                /\ (pc[p] = "returned") => (issued = expected)
                /\ (Len(issued) = 2) =>
                       BridgeField(p, expected[1]) \in DOMAIN comms
                /\ (Len(issued) = 1 /\ pc[p] # "returned") =>
                       /\ rg[p].succInterComm = MPI_COMM_NULL
                       /\ rg[p].predInterComm = MPI_COMM_NULL

\* An InnerABC ring of three groups of three: the leader of odd group 1 is in
\* its second call (successor) holding its predecessor bridge, the leader of
\* even group 0 has made both calls and a non-leader has returned after one.
C12_Witness ==
    /\ IsSparse /\ cfg.algorithm = InnerABC
    /\ cfg.numReplicationGroups = 3 /\ cfg.replicationGroupSize = 3
    /\ \E o, e, n \in DOMAIN rg :
         /\ o = rg[o].localLeaderId /\ rg[o].localRgId = 1
         /\ pc[o] = "succ" /\ BridgeCalls(o) = <<"pred", "succ">>
         /\ rg[o].predInterComm # MPI_COMM_NULL
         /\ e = rg[e].localLeaderId /\ rg[e].localRgId = 0
         /\ BridgeCalls(e) = <<"succ", "pred">>
         /\ n # rg[n].localLeaderId
         /\ pc[n] = "returned" /\ BridgeCalls(n) = <<"succ">>

\* The leader of group g, as the members of g name it.
LeaderOf(g) == rg[CHOOSE p \in GroupOf(g) : TRUE].localLeaderId

\* Group g has started bridging and its leader's first call was the
\* successor bridge.
FirstMover(g) ==
    /\ GroupOf(g) # {}
    /\ BridgeCalls(LeaderOf(g)) # <<>>
    /\ BridgeCalls(LeaderOf(g))[1] = "succ"

\* Group g has started bridging and its leader's first call was the
\* predecessor bridge.
SecondMover(g) ==
    /\ GroupOf(g) # {}
    /\ BridgeCalls(LeaderOf(g)) # <<>>
    /\ BridgeCalls(LeaderOf(g))[1] = "pred"

RingEdges ==
    { <<g, (g + 1) % cfg.numReplicationGroups>> :
          g \in 0 .. cfg.numReplicationGroups - 1 }

\* The edge from the last group back to group 0 in a ring of odd size.
OddWrap(e) ==
    /\ cfg.numReplicationGroups % 2 = 1
    /\ e = <<cfg.numReplicationGroups - 1, 0>>

(* C13 as stated. First-mover exclusion: in a sparse run with at least two *)
(* groups, in every reachable state and for every ring-adjacent pair       *)
(* (g, (g + 1) mod G), rings of odd size included, at most one of the two  *)
(* groups is a first mover.                                                *)
C13_FirstMoverExclusion ==
    (IsSparse /\ cfg.numReplicationGroups >= 2) =>
        \A e \in RingEdges : ~(FirstMover(e[1]) /\ FirstMover(e[2]))

(* C13 amended. At most one group of a ring-adjacent pair is a first       *)
(* mover for every pair but the pair (G - 1, 0) of a ring of odd size G;   *)
(* the two groups of that pair are both even and both first movers, and    *)
(* each of them still has a neighbour on its other side that is not.       *)
C13_FirstMoverExclusionButOddWrap ==
    (IsSparse /\ cfg.numReplicationGroups >= 2) =>
        \A e \in RingEdges :
            IF OddWrap(e)
            THEN /\ ~SecondMover(e[1]) /\ ~SecondMover(e[2])
                 /\ ~FirstMover(e[1] - 1) /\ ~FirstMover(e[2] + 1)
            ELSE ~(FirstMover(e[1]) /\ FirstMover(e[2]))

\* A ColumnA ring of five groups in which every leader has issued its first
\* call: groups 4 and 0 are both first movers, groups 1 and 3 are not.
C13_Witness ==
    /\ IsSparse /\ cfg.algorithm = ColumnA
    /\ cfg.numReplicationGroups = 5 /\ cfg.replicationGroupSize = 2
    /\ FirstMover(4) /\ FirstMover(0) /\ FirstMover(2)
    /\ SecondMover(1) /\ SecondMover(3)

\* The successor-bridge call pending in x and the predecessor-bridge call
\* pending in y belong to the same ring edge: y leads the group after x's.
SameEdge(x, y) ==
    /\ pc[x] = "succ" /\ pc[y] = "pred"
    /\ rg[y].localRgId = (rg[x].localRgId + 1) % cfg.numReplicationGroups
    /\ y = rg[y].localLeaderId

\* The two calls of every ring edge agree: same tag, the tag of the group
\* the edge leaves, and each side names the leader of the other.
PendingCallsAgree ==
    \A x, y \in DOMAIN rg :
        SameEdge(x, y) =>
            /\ CallTag(x) = getGlobalId(rg[x].localRgId, cfg.numReplicationGroups)
            /\ CallTag(y) = CallTag(x)
            /\ CallRemoteLeader(x) = y
            /\ CallRemoteLeader(y) = LeaderOf(rg[x].localRgId)

\* The calls of a and b that are matched in this step are the two calls of
\* one ring edge, made by the whole group on one side and the leader alone
\* on the other.
MatchedOnOneEdge(a, b) ==
    \E x, y \in {a, b} :
        /\ SameEdge(x, y)
        /\ x = rg[x].localLeaderId
        /\ CallGroup(x) = GroupOf(rg[x].localRgId)
        /\ CallGroup(y) = {y}

(* C14. Rendezvous matching: for every ring edge g -> s the successor call *)
(* of group g and the predecessor call of the leader of s carry the same   *)
(* tag, the group-global tag of g, and each names the other side's actual  *)
(* leader as remote leader; and the tag being injective in the group id,   *)
(* the calls that a rendezvous matches are always the two calls of one     *)
(* ring edge, in the ring of two groups too, where the two edges join the  *)
(* same pair of leaders.                                                   *)
C14_RendezvousMatching ==
    [][ (IsSparse /\ cfg.numReplicationGroups >= 2) =>
          /\ PendingCallsAgree'
          /\ \A a, b \in Procs :
                 Intercomm_create_return(a, b) => MatchedOnOneEdge(a, b) ]_vars

\* A ColumnA ring of two groups of two, in which both edges join leaders 0
\* and 2: the edge 0 -> 1 is bridged (tag 0) and the calls of the edge
\* 1 -> 0 are pending in group 1 and in leader 0.
C14_Witness ==
    /\ IsSparse /\ cfg.algorithm = ColumnA
    /\ cfg.numReplicationGroups = 2 /\ cfg.replicationGroupSize = 2
    /\ DOMAIN rg = Procs
    /\ rg[0].succInterComm = <<"inter", 0, 2, 0>>
    /\ rg[2].predInterComm = <<"inter", 0, 2, 0>>
    /\ SameEdge(2, 0) /\ SameEdge(3, 0)

(* C15. Neighbour-leader consistency: the successor leader and the         *)
(* predecessor leader a sparse process computes are the leader that the    *)
(* members of those neighbouring groups compute for themselves; and under  *)
(* InnerABC the neighbour formula (id div numShifts) + (id mod numShifts)  *)
(* * replicationGroupSize, applied to the id of a group, equals processId  *)
(* mod numReplicationGroups for every member of that group.                *)
C15_NeighbourLeaderConsistency ==
    (IsSparse /\ AllAssigned) =>
        \A p, q \in Procs :
            /\ (rg[q].localRgId = rg[p].succRgId) =>
                   (rg[q].localLeaderId = rg[p].succRgLeaderId)
            /\ (rg[q].localRgId = rg[p].predRgId) =>
                   (rg[q].localLeaderId = rg[p].predRgLeaderId)
            /\ (cfg.algorithm = InnerABC) =>
                   LET numShifts ==
                           cfg.numReplicationGroups \div cfg.replicationGroupSize
                       id == rg[q].localRgId
                   IN  (id \div numShifts)
                           + ((id % numShifts) * cfg.replicationGroupSize)
                       = q % cfg.numReplicationGroups

\* An InnerABC assignment of 18 processes to 6 groups of 3 (two shifts): the
\* leader of the group after process 7's group is 4, not a multiple of 3.
C15_Witness ==
    /\ IsSparse /\ cfg.algorithm = InnerABC /\ AllAssigned
    /\ cfg.numReplicationGroups = 6 /\ cfg.replicationGroupSize = 3
    /\ rg[7].localRgId = 2 /\ rg[7].succRgId = 3 /\ rg[7].succRgLeaderId = 4
    /\ rg[4].localRgId = 3 /\ rg[10].localRgId = 3 /\ rg[10].localLeaderId = 4

\* The processes of one dense InnerABC group: the same processId div size.
DenseGroup(d) == { p \in Procs : p \div cfg.replicationGroupSize = d }

DenseGroupIds == { p \div cfg.replicationGroupSize : p \in Procs }

\* The sparse group id that member p of a dense group meets at shift k.
ShiftedId(p, k) == (rg[p].localRgId + k) % cfg.numReplicationGroups

(* C16. Unique blocks per dense group: under InnerABC two distinct         *)
(* processes of one dense group (same processId div replicationGroupSize)  *)
(* have different sparse group ids, and the ids (localRgId + k) mod G over *)
(* the members of one dense group and all k in [0, numShifts) cover        *)
(* [0, G) with no id met twice.                                            *)
C16_UniqueBlocksPerDenseGroup ==
    (IsSparse /\ cfg.algorithm = InnerABC /\ AllAssigned) =>
        LET numShifts == cfg.numReplicationGroups \div cfg.replicationGroupSize
            shifts    == 0 .. numShifts - 1
        IN  \A d \in DenseGroupIds :
                /\ \A p, q \in DenseGroup(d) :
                       (p # q) => (rg[p].localRgId # rg[q].localRgId)
                /\ { ShiftedId(p, k) : p \in DenseGroup(d), k \in shifts }
                       = 0 .. cfg.numReplicationGroups - 1
                /\ \A p, q \in DenseGroup(d) : \A k, j \in shifts :
                       (ShiftedId(p, k) = ShiftedId(q, j)) => (p = q /\ k = j)

\* 18 processes, 6 sparse groups of 3, two shifts: the dense group {3, 4, 5}
\* holds the sparse ids 1, 3, 5 and the shifted id of process 5 wraps to 0.
C16_Witness ==
    /\ IsSparse /\ cfg.algorithm = InnerABC /\ AllAssigned
    /\ cfg.numReplicationGroups = 6 /\ cfg.replicationGroupSize = 3
    /\ DenseGroup(1) = {3, 4, 5}
    /\ rg[3].localRgId = 1 /\ rg[4].localRgId = 3 /\ rg[5].localRgId = 5
    /\ ShiftedId(5, 1) = 0

----------------------------------------------------------------------------
(* A run in which one group leader stops for good after MPI_Comm_split and *)
(* before its first MPI_Intercomm_create. A pending call that nothing has  *)
(* matched has had no effect on any other process, so the leader is taken  *)
(* out of its first, still unmatched, bridge call as if never made.        *)

Halt(p) ==
    /\ \A q \in Procs : pc[q] # "halted"
    /\ InBridgeCall(p)
    /\ p = rg[p].localLeaderId
    /\ Len(BridgeCalls(p)) = 1
    /\ pc' = [pc EXCEPT ![p] = "halted"]
    /\ calls' = [calls EXCEPT ![p] = SubSeq(@, 1, Len(@) - 1)]
    /\ UNCHANGED <<cfg, rg, comms, freeCalls, released>>

NextHalt == NextBuild \/ (\E p \in Procs : Halt(p))

SpecHalt == InitBuild /\ [][NextHalt]_vars

(* C17. No timeout or retry: in a sparse run with at least two groups, if  *)
(* the leader of group g never reaches its bridge calls while every other  *)
(* process runs the protocol, then no member of g, no member of the        *)
(* predecessor group of g and not the leader of the successor group of g   *)
(* returns from ofProcess; and a process returns from ofProcess only with  *)
(* the bridges of all the calls it made established: a blocked call is     *)
(* never abandoned and never comes back with an error.                     *)
C17_NoTimeoutOrRetry ==
    (IsSparse /\ cfg.numReplicationGroups >= 2) =>
        /\ \A l \in Procs :
               (pc[l] = "halted") =>
                   /\ BridgeCalls(l) = <<>>
                   /\ \A m \in GroupOf(rg[l].localRgId)
                                 \cup GroupOf(rg[l].predRgId)
                                 \cup {rg[l].succRgLeaderId} :
                          pc[m] # "returned"
        /\ \A p \in DOMAIN rg :
               (pc[p] = "returned") =>
                   /\ rg[p].succInterComm \in DOMAIN comms
                   /\ (p = rg[p].localLeaderId) =>
                          (rg[p].predInterComm \in DOMAIN comms)

\* A ColumnA ring of four groups of two whose leader 0 stopped: the
\* non-leader of group 2 has returned, every other process is blocked in a
\* call that nothing will match, and no step is left.
C17_Witness ==
    /\ IsSparse /\ cfg.algorithm = ColumnA
    /\ cfg.numReplicationGroups = 4 /\ cfg.replicationGroupSize = 2
    /\ pc[0] = "halted" /\ pc[5] = "returned"
    /\ \A p \in Procs \ {0, 5} : InBridgeCall(p)
    /\ ~ENABLED NextHalt

(* C18. Leader is rank 0 of its local channel: wherever a local channel is *)
(* split (sparse ColumnA, sparse InnerABC, dense InnerABC) the leader of a *)
(* group is the smallest process id among the group's members, the local   *)
(* channel lists the members in process id order, so the leader holds      *)
(* internal rank INTERNAL_LEADER_ID = 0; hence the process that acts as    *)
(* local leader of the whole-group successor call is the process the       *)
(* neighbouring groups name as that group's leader.                        *)
C18_LeaderIsRankZero ==
    \A p \in DOMAIN rg :
        (rg[p].localComm \in DOMAIN comms) =>
            LET members == comms[rg[p].localComm]
                group   == GroupOf(rg[p].localRgId)
            IN  /\ Range(members) = group
                /\ rg[p].localLeaderId \in group
                /\ \A q \in group : rg[p].localLeaderId <= q
                /\ \A i, j \in DOMAIN members :
                       (i < j) => (members[i] < members[j])
                /\ members[INTERNAL_LEADER_ID + 1] = rg[p].localLeaderId
                /\ IsSparse =>
                       \A q \in DOMAIN rg :
                           /\ (rg[q].succRgId = rg[p].localRgId) =>
                                  (rg[q].succRgLeaderId = members[1])
                           /\ (rg[q].predRgId = rg[p].localRgId) =>
                                  (rg[q].predRgLeaderId = members[1])
                /\ (pc[p] = "succ") => (CallLeader(p) = rg[p].localLeaderId)

\* An InnerABC ring of four groups of two: the local channel of group 3 is
\* <<3, 7>>, its members are in the successor call led by process 3, which is
\* the process group 2 names as successor leader.
C18_Witness ==
    /\ IsSparse /\ cfg.algorithm = InnerABC
    /\ cfg.numReplicationGroups = 4 /\ cfg.replicationGroupSize = 2
    /\ DOMAIN rg = Procs
    /\ rg[7].localRgId = 3 /\ rg[7].localComm \in DOMAIN comms
    /\ comms[rg[7].localComm] = <<3, 7>>
    /\ pc[7] = "succ" /\ CallLeader(7) = 3
    /\ \E q \in Procs : rg[q].localRgId = 2 /\ rg[q].succRgLeaderId = 3

----------------------------------------------------------------------------
(* freeComms with MPI_Comm_free as a synchronizing collective: a call on a *)
(* channel returns once every process of the channel is in MPI_Comm_free   *)
(* on that channel.                                                        *)

\* The MPI_Comm_free calls of freeComms, in the order of the code.
FreeOrder ==
    IF cfg.kind = Dense THEN <<"free_local", "free_leaders">>
    ELSE <<"free_local", "free_pred", "free_succ">>

\* The member of the object that a call of freeComms is given.
FreeField(r, where) ==
    IF where = "free_local" THEN r.localComm
    ELSE IF where = "free_leaders" THEN r.leadersComm
    ELSE IF where = "free_pred" THEN r.predInterComm
    ELSE r.succInterComm

InFree(q) == pc[q] \in Range(FreeOrder)

\* The first call from position i on whose handle safeMPI_Comm_free passes
\* to MPI_Comm_free; freeComms returns when there is none.
NextFreeFrom(r, i) ==
    LET passed == { j \in i .. Len(FreeOrder) :
                      safeMPI_Comm_free(FreeField(r, FreeOrder[j])) }
    IN  IF passed = {} THEN "freed"
        ELSE FreeOrder[CHOOSE j \in passed : \A k \in passed : j <= k]

PositionOf(where) == CHOOSE i \in DOMAIN FreeOrder : FreeOrder[i] = where

SetFreed(r, where) ==
    IF where = "free_local" THEN [r EXCEPT !.localComm = AfterFree(@)]
    ELSE IF where = "free_leaders" THEN [r EXCEPT !.leadersComm = AfterFree(@)]
    ELSE IF where = "free_pred" THEN [r EXCEPT !.predInterComm = AfterFree(@)]
    ELSE [r EXCEPT !.succInterComm = AfterFree(@)]

\* p calls freeComms and blocks in its first MPI_Comm_free.
SyncFreeComms_call(p) ==
    /\ pc[p] = "returned" /\ freeCalls[p] = 0
    /\ pc' = [pc EXCEPT ![p] = NextFreeFrom(rg[p], 1)]
    /\ freeCalls' = [freeCalls EXCEPT ![p] = @ + 1]
    /\ UNCHANGED <<cfg, rg, comms, calls, released>>

\* Every process of channel h is in MPI_Comm_free on h: the call returns in
\* all of them, and each goes on to its next MPI_Comm_free.
Comm_free_return(h) ==
    /\ h \in DOMAIN comms
    /\ \A q \in Range(comms[h]) : InFree(q) /\ (FreeField(rg[q], pc[q]) = h)
    /\ LET holders == Range(comms[h])
       IN  /\ rg' = [q \in DOMAIN rg |->
                       IF q \in holders THEN SetFreed(rg[q], pc[q]) ELSE rg[q]]
           /\ released' = [q \in Procs |->
                             IF q \in holders THEN Append(released[q], h)
                             ELSE released[q]]
           /\ pc' = [q \in Procs |->
                       IF q \in holders
                       THEN NextFreeFrom(rg[q], PositionOf(pc[q]) + 1)
                       ELSE pc[q]]
    /\ UNCHANGED <<cfg, comms, calls, freeCalls>>

SyncFreeStep ==
    \/ \E p \in Procs : SyncFreeComms_call(p)
    \/ \E h \in DOMAIN comms : Comm_free_return(h)

NextSyncFree == NextBuild \/ SyncFreeStep

SpecSyncFree == Init /\ [][NextSyncFree]_vars

AllFreed == \A p \in Procs : pc[p] = "freed"

(* C19. Release terminates across the ring: after the bridges of a sparse  *)
(* run with at least two groups are established and every process calls   *)
(* freeComms (local channel, predecessor bridge, successor bridge, in that *)
(* order whatever the parity), every process returns from freeComms even   *)
(* if MPI_Comm_free is a synchronizing collective; no circular wait        *)
(* arises: as long as some process has not returned from freeComms, some   *)
(* release step is possible.                                               *)
C19_ReleaseTerminates ==
    (IsSparse /\ cfg.numReplicationGroups >= 2
             /\ (\A p \in Procs : InFree(p) \/ pc[p] \in {"returned", "freed"})) =>
        (AllFreed \/ ENABLED SyncFreeStep)

\* The bridge channels held anywhere in the run.
Bridges ==
    ({ rg[p].succInterComm : p \in DOMAIN rg }
        \cup { rg[p].predInterComm : p \in DOMAIN rg }) \ {MPI_COMM_NULL}

SuccHolders(h) == { p \in DOMAIN rg : rg[p].succInterComm = h }

PredHolders(h) == { p \in DOMAIN rg : rg[p].predInterComm = h }

(* C20. Bridge membership after establishment: in a sparse run with at     *)
(* least two groups, once every process has returned from ofProcess,       *)
(* every process holds a non-null successor channel, a process holds a     *)
(* non-null predecessor channel iff it is its group's leader, the bridge   *)
(* of ring edge g -> (g + 1) mod G is held by exactly the members of g as  *)
(* successor channel and by exactly the leader of the successor group as   *)
(* predecessor channel, and there are exactly G bridges.                   *)
C20_BridgeMembership ==
    (IsSparse /\ cfg.numReplicationGroups >= 2 /\ AllReturned) =>
        /\ \A p \in Procs :
               /\ rg[p].succInterComm \in DOMAIN comms
               /\ (rg[p].predInterComm # MPI_COMM_NULL) <=>
                      (p = rg[p].localLeaderId)
        /\ \A e \in RingEdges :
               \E h \in Bridges :
                   /\ h \in DOMAIN comms
                   /\ h[4] = getGlobalId(e[1], cfg.numReplicationGroups)
                   /\ SuccHolders(h) = GroupOf(e[1])
                   /\ PredHolders(h) = {LeaderOf(e[2])}
                   /\ Range(comms[h]) = GroupOf(e[1]) \cup {LeaderOf(e[2])}
        /\ Cardinality(Bridges) = cfg.numReplicationGroups

\* An InnerABC ring of three groups of three, all processes returned: the
\* bridge of edge 2 -> 0 is held by group 2 = {2, 5, 8} and by leader 0.
C20_Witness ==
    /\ IsSparse /\ cfg.algorithm = InnerABC /\ AllReturned
    /\ cfg.numReplicationGroups = 3 /\ cfg.replicationGroupSize = 3
    /\ SuccHolders(rg[0].predInterComm) = {2, 5, 8}
    /\ PredHolders(rg[0].predInterComm) = {0}
    /\ Cardinality(Bridges) = 3

============================================================================
